---- MODULE Spec2Model ----
(***************************************************************************)
(* Change detection and fan-out of the geospatial dashboard server.        *)
(*                                                                         *)
(* The repository holds three builds of the WebSocket module:              *)
(*   "websocket"  apps/server/src/websocket.ts   (pub/sub topic + counter) *)
(*   "production" apps/server/src/production.ts  (same, guarded handlers)  *)
(*   "legacy"     unnamed/part_000               (Set of connections)      *)
(* The variable build selects one of them in Init and never changes.       *)
(*                                                                         *)
(* Time is a logical clock: only the order of timestamps matters to the    *)
(* code (every comparison is > or =), so each reading of a clock, by       *)
(* new Date() in the server or by NOW()/CURRENT_TIMESTAMP in the store,    *)
(* takes the next value of now.                                            *)
(***************************************************************************)
EXTENDS Integers, Sequences, FiniteSets, TLC

\* ------------------------------------------------------------------ bounds
MaxSessions == 2
MaxTime == 3
NumAssets == 1
MaxInFlight == 2
NumEndpoints == 2
MaxSubIds == 3
MaxDispatch == 2
NumFeatures == 2

Sessions == 1..MaxSessions
AssetIds == 1..NumAssets
Slots == 1..MaxInFlight
\* The change detector reads the registry only through pollTimer and
\* subscriberCount, so its specification lets one session slot connect, fail,
\* close and reconnect; the registry with several sessions is SpecSession's.
PollSessions == {1}
Builds == {"websocket", "production", "legacy"}
PubSubBuilds == {"websocket", "production"}
NULL == 0 - 1

VARIABLES
  build,            \* which build of the module runs
  phase,            \* session -> "connecting" | "open" | "closed"  (the socket)
  errFired,         \* session -> the error callback has fired for it
  subscribed,       \* sessions subscribed to ASSETS_TOPIC (pub/sub builds)
  connections,      \* the connections Set, in insertion order (legacy build)
  welcome,          \* session -> types of the messages open(ws) sent to it
  reply,            \* the latest message(ws, message) call and what it sent
  subscriberCount,  \* let subscriberCount
  pollTimer,        \* let pollTimer: a timer handle, or NULL
  activeTimers,     \* interval timers alive in the runtime
  lastCall,         \* outcome of the latest startPolling/stopPolling call
  wire,             \* the latest broadcast call: sessions registered, sessions written to
  now,              \* the clock
  lastCheckTime,    \* let lastCheckTime (the watermark)
  assets,           \* the assets table: id -> [created_at, updated_at, deleted_at]
  stmt,             \* id -> the write statement executing on that row, not yet committed
  tick,             \* slot -> one invocation of pollForUpdates
  unhandled,        \* an exception has escaped pollForUpdates
  unseen,           \* ids with a committed mutation no tick has broadcast since
  idleMut,          \* ids mutated wholly while the scheduler was idle, not broadcast since
  pushConfigured,   \* NotificationCenter.pushConfigured
  initialized,      \* NotificationCenter.initialize() has run
  push_subscriptions, \* the push_subscriptions table: a set of rows
  nextSubId,        \* the next value of uuid_generate_v4() for a row id
  latestSub,        \* endpoint -> the arguments of the latest subscribe call for it
  lastSubOp,        \* the latest subscribe/unsubscribe call
  nextUuid,         \* the next value of randomUUID()
  notif,            \* the latest publish call: its input, payload and effects
  dispatch,         \* slot -> one invocation of dispatchPush
  gone,             \* endpoints that answered 404/410 and have not subscribed since
  features,         \* the client's data.features
  received,         \* the message the client handled last
  repeated,         \* that message was the same as the one handled before it
  kafka,            \* the latest call of the Kafka eachMessage handler and its outcome
  failedOpen,       \* the latest open(ws) call in which a step threw
  wsRef,            \* useWebSocket: wsRef.current, a socket or NULL
  reconnectTimeoutRef, \* useWebSocket: reconnectTimeoutRef.current, a timeout handle or NULL
  shouldConnectRef, \* useWebSocket: shouldConnectRef.current
  sockets,          \* the WebSockets the hook has created: their readyState, in creation order
  hookTimers,       \* the timeouts of the hook that are pending
  hookCall          \* the disconnect() and reconnect() calls made on the hook

sessVars == <<phase, errFired, subscribed, connections, subscriberCount, welcome, reply>>
timerVars == <<pollTimer, activeTimers, lastCall>>
pollVars == <<now, lastCheckTime, assets, stmt, tick, unhandled, unseen, idleMut>>
notifyVars == <<pushConfigured, initialized, push_subscriptions, nextSubId, latestSub,
                lastSubOp, nextUuid, notif, dispatch, gone>>
clientVars == <<features, received, repeated>>
hookVars == <<wsRef, reconnectTimeoutRef, shouldConnectRef, sockets, hookTimers, hookCall>>
vars == <<build, phase, errFired, subscribed, connections, subscriberCount, welcome, reply,
          pollTimer, activeTimers, lastCall, wire,
          now, lastCheckTime, assets, stmt, tick, unhandled, unseen, idleMut, notifyVars,
          clientVars, kafka, failedOpen, hookVars>>

\* ----------------------------------------------------------------- helpers
Max(a, b) == IF a >= b THEN a ELSE b

SeqToSet(s) == {s[i] : i \in 1..Len(s)}

RECURSIVE Without(_, _)
Without(s, x) ==
  IF s = <<>> THEN <<>>
  ELSE IF Head(s) = x THEN Without(Tail(s), x)
  ELSE <<Head(s)>> \o Without(Tail(s), x)

\* Set.add: appends unless present
SetAdd(s, x) == IF x \in SeqToSet(s) THEN s ELSE Append(s, x)

\* appInstance.server is set by setAppInstance(app) right after listen()
ServerAvailable == TRUE

\* the registry's cardinality as the handlers read it
RegistryCount == IF build = "legacy" THEN Len(connections) ELSE subscriberCount

\* the sessions a broadcast writes to
Registered == IF build = "legacy" THEN SeqToSet(connections) ELSE subscribed

\* ------------------------------------------------------- timer start / stop
FreshHandle == CHOOSE h \in 1..(Cardinality(activeTimers) + 1) : h \notin activeTimers

\* startPolling without its guard
StartPollingUnguarded ==
  /\ pollTimer' = FreshHandle
  /\ activeTimers' = activeTimers \cup {FreshHandle}
  /\ lastCall' = "started"

StartPolling ==
  IF pollTimer # NULL
  THEN /\ UNCHANGED <<pollTimer, activeTimers>>
       /\ lastCall' = "start-noop"
  ELSE /\ pollTimer' = FreshHandle
       /\ activeTimers' = activeTimers \cup {FreshHandle}
       /\ lastCall' = "started"

StopPolling ==
  IF pollTimer # NULL
  THEN /\ activeTimers' = activeTimers \ {pollTimer}
       /\ pollTimer' = NULL
       /\ lastCall' = "stopped"
  ELSE /\ UNCHANGED <<pollTimer, activeTimers>>
       /\ lastCall' = "stop-noop"

\* --------------------------------------------------------------- broadcast
\* connections.forEach(ws => { try { ws.send } catch { connections.delete(ws) } })
\* order: the sessions still to visit; failing: the sessions whose send throws.
\* Yields the sessions written to and the sessions deleted.
\* the same loop without the try/catch: the first throw ends the forEach
RECURSIVE ForEachSendNoCatch(_, _)
ForEachSendNoCatch(order, failing) ==
  IF order = <<>> THEN [attempted |-> <<>>, deleted |-> {}]
  ELSE IF Head(order) \in failing
       THEN [attempted |-> <<Head(order)>>, deleted |-> {}]
       ELSE LET r == ForEachSendNoCatch(Tail(order), failing)
            IN  [attempted |-> <<Head(order)>> \o r.attempted, deleted |-> r.deleted]

RECURSIVE ForEachSend(_, _)
ForEachSend(order, failing) ==
  IF order = <<>> THEN [attempted |-> <<>>, deleted |-> {}]
  ELSE LET r == ForEachSend(Tail(order), failing)
       IN  [attempted |-> <<Head(order)>> \o r.attempted,
            deleted |-> (IF Head(order) \in failing THEN {Head(order)} ELSE {}) \cup r.deleted]

\* server.publish(ASSETS_TOPIC, messageStr): one write per subscriber of the topic
RECURSIVE Publish(_)
Publish(subs) ==
  IF subs = {} THEN <<>>
  ELSE LET s == CHOOSE x \in subs : \A y \in subs : x <= y
       IN  <<s>> \o Publish(subs \ {s})

RECURSIVE WithoutAll(_, _)
WithoutAll(s, xs) ==
  IF s = <<>> THEN <<>>
  ELSE IF Head(s) \in xs THEN WithoutAll(Tail(s), xs)
  ELSE <<Head(s)>> \o WithoutAll(Tail(s), xs)

\* one call of broadcast(message); failing: the sessions whose write fails
BroadcastTo(failing) ==
  IF build = "legacy"
  THEN LET r == ForEachSend(connections, failing)
       IN  /\ wire' = [registered |-> SeqToSet(connections), attempted |-> r.attempted,
                       failed |-> failing]
           /\ connections' = WithoutAll(connections, r.deleted)
  ELSE /\ connections' = connections
       /\ IF ServerAvailable
          THEN wire' = [registered |-> subscribed, attempted |-> Publish(subscribed),
                        failed |-> failing]
          ELSE wire' = wire

\* ------------------------------------------------------- session callbacks
\* type of the welcome message open(ws) sends
WelcomeType == IF build = "legacy" THEN "ping" ELSE "connected"

\* open(ws)
Open(s) ==
  /\ phase[s] = "connecting"
  /\ phase' = [phase EXCEPT ![s] = "open"]
  /\ welcome' = [welcome EXCEPT ![s] = Append(@, WelcomeType)]
  /\ IF build = "legacy"
     THEN /\ connections' = SetAdd(connections, s)
          /\ UNCHANGED <<subscribed, subscriberCount>>
          /\ IF Len(connections') = 1
             THEN StartPolling
             ELSE UNCHANGED timerVars
     ELSE /\ subscribed' = subscribed \cup {s}
          /\ subscriberCount' = subscriberCount + 1
          /\ UNCHANGED connections
          /\ IF subscriberCount' = 1
             THEN StartPolling
             ELSE UNCHANGED timerVars
  /\ UNCHANGED <<kafka, failedOpen>>
  /\ UNCHANGED hookVars
  /\ UNCHANGED <<build, clientVars, notifyVars, errFired, reply, wire>>
  /\ UNCHANGED pollVars

\* subscriberCount - 1 without the Math.max(0, ...) floor
DecrementUnfloored == subscriberCount - 1

\* Math.max(0, subscriberCount - 1)
Decrement == Max(0, subscriberCount - 1)

\* close(ws, code, message)
Close(s) ==
  /\ phase[s] = "open"
  /\ phase' = [phase EXCEPT ![s] = "closed"]
  /\ IF build = "legacy"
     THEN /\ connections' = Without(connections, s)
          /\ UNCHANGED <<subscribed, subscriberCount>>
          /\ IF Len(connections') = 0
             THEN StopPolling
             ELSE UNCHANGED timerVars
     ELSE /\ subscribed' = subscribed \ {s}
          /\ subscriberCount' = Decrement
          /\ UNCHANGED connections
          /\ IF subscriberCount' = 0
             THEN StopPolling
             ELSE UNCHANGED timerVars
  /\ UNCHANGED <<kafka, failedOpen>>
  /\ UNCHANGED hookVars
  /\ UNCHANGED <<build, clientVars, notifyVars, errFired, welcome, reply, wire>>
  /\ UNCHANGED pollVars

\* error(ws, error): the production build registers no error handler
Error(s) ==
  /\ build # "production"
  /\ phase[s] # "connecting"
  /\ ~errFired[s]
  /\ errFired' = [errFired EXCEPT ![s] = TRUE]
  /\ IF build = "legacy"
     THEN /\ connections' = Without(connections, s)
          /\ UNCHANGED <<subscribed, subscriberCount>>
     ELSE /\ subscribed' = subscribed \ {s}
          /\ subscriberCount' = Decrement
          /\ UNCHANGED connections
  /\ UNCHANGED <<kafka, failedOpen>>
  /\ UNCHANGED hookVars
  /\ UNCHANGED <<build, clientVars, notifyVars, phase, welcome, reply, wire>>
  /\ UNCHANGED timerVars
  /\ UNCHANGED pollVars

\* What a client can send. text: the frame reaches the handler as a string;
\* otherwise it reaches it as an already decoded value. body names the value:
\* an object of type 'ping', an object of another type, an object without a
\* type, null, or (strings only) text that is not JSON.
Bodies == {"ping", "other", "notype", "null", "garbage"}
Messages ==
  {[text |-> TRUE, body |-> b] : b \in Bodies} \cup
  {[text |-> FALSE, body |-> b] : b \in Bodies \ {"garbage"}}

\* JSON.parse(message): the value, or "throw"
JSONParse(body) == IF body = "garbage" THEN "throw" ELSE body

\* data.type: reading a property of null throws
TypeOf(data) ==
  CASE data = "null" -> "throw"
    [] data = "ping" -> "ping"
    [] data = "other" -> "other"
    [] OTHER -> "undefined"

\* replying 'pong' whatever the message is
OnMessageAlwaysPong(s, m) == <<[to |-> s, type |-> "pong"]>>

\* the body of message(ws, message): the sends it makes, in order
OnMessage(s, m) ==
  LET data == IF m.text THEN JSONParse(m.body) ELSE m.body
  IN  IF data = "throw" THEN <<>>
      ELSE IF TypeOf(data) = "throw" THEN <<>>
      ELSE IF TypeOf(data) = "ping" THEN <<[to |-> s, type |-> "pong"]>>
      ELSE <<>>

\* a heartbeat ping: {"type": "ping"}, as text or decoded
IsHeartbeat(m) == m.body = "ping"

NoReply == [from |-> NULL, heartbeat |-> FALSE, sent |-> <<>>]

\* message(ws, message)
Message(s, m) ==
  /\ phase[s] = "open"
  /\ reply' = [from |-> s, heartbeat |-> IsHeartbeat(m), sent |-> OnMessage(s, m)]
  /\ UNCHANGED <<kafka, failedOpen>>
  /\ UNCHANGED hookVars
  /\ UNCHANGED <<build, clientVars, notifyVars, phase, errFired, subscribed, connections, subscriberCount,
                 welcome, wire>>
  /\ UNCHANGED timerVars
  /\ UNCHANGED pollVars

\* a new client connects: the upgrade gives a fresh socket, here the slot of a
\* closed one
Reconnect(s) ==
  /\ phase[s] = "closed"
  /\ s \notin Registered
  /\ phase' = [phase EXCEPT ![s] = "connecting"]
  /\ errFired' = [errFired EXCEPT ![s] = FALSE]
  /\ welcome' = [welcome EXCEPT ![s] = <<>>]
  /\ UNCHANGED <<kafka, failedOpen>>
  /\ UNCHANGED hookVars
  /\ UNCHANGED <<build, clientVars, notifyVars, subscribed, connections, subscriberCount, reply, wire>>
  /\ UNCHANGED timerVars
  /\ UNCHANGED pollVars

\* process.on('SIGTERM' | 'SIGINT'): the handler replaces the default exit
Signal ==
  /\ StopPolling
  /\ IF build = "legacy"
     THEN /\ connections' = <<>>
          /\ UNCHANGED subscriberCount
     ELSE /\ subscriberCount' = 0
          /\ UNCHANGED connections
  /\ UNCHANGED <<kafka, failedOpen>>
  /\ UNCHANGED hookVars
  /\ UNCHANGED <<build, clientVars, notifyVars, phase, errFired, subscribed, welcome, reply, wire>>
  /\ UNCHANGED pollVars

\* broadcast(message), called by a poll tick or by the notification centre
Broadcast ==
  /\ \E failing \in SUBSET Registered : BroadcastTo(failing)
  /\ UNCHANGED <<kafka, failedOpen>>
  /\ UNCHANGED hookVars
  /\ UNCHANGED <<build, clientVars, notifyVars, phase, errFired, subscribed, subscriberCount, welcome, reply>>
  /\ UNCHANGED timerVars
  /\ UNCHANGED pollVars

\* the exported startPolling() and stopPolling(), called from outside the handlers
CallStartPolling ==
  /\ StartPolling
  /\ UNCHANGED <<kafka, failedOpen>>
  /\ UNCHANGED hookVars
  /\ UNCHANGED <<build, clientVars, notifyVars, wire>>
  /\ UNCHANGED sessVars
  /\ UNCHANGED pollVars

CallStopPolling ==
  /\ StopPolling
  /\ UNCHANGED <<kafka, failedOpen>>
  /\ UNCHANGED hookVars
  /\ UNCHANGED <<build, clientVars, notifyVars, wire>>
  /\ UNCHANGED sessVars
  /\ UNCHANGED pollVars

\* ------------------------------------------------------------ asset store
NoRow == [created_at |-> NULL, updated_at |-> NULL, deleted_at |-> NULL]
NoStmt == [op |-> "none", ts |-> NULL, whileIdle |-> FALSE]

SchedulerIdle == activeTimers = {}
InFlight(t) == tick[t].pc \in {"created", "updates", "deleted"}

\* A write is one awaited SQL statement.  NOW() and CURRENT_TIMESTAMP are the
\* start time of the statement's transaction; the row is visible to other
\* queries from the commit on.  whileIdle records that the scheduler has been
\* idle ever since the statement began.
BeginStmt(a, op) ==
  /\ now <= MaxTime
  /\ stmt[a] = NoStmt
  /\ stmt' = [stmt EXCEPT ![a] = [op |-> op, ts |-> now, whileIdle |-> SchedulerIdle]]
  /\ now' = now + 1
  /\ UNCHANGED <<lastCheckTime, assets, tick, unhandled, unseen, idleMut>>
  /\ UNCHANGED <<kafka, failedOpen>>
  /\ UNCHANGED hookVars
  /\ UNCHANGED <<build, clientVars, notifyVars, wire>>
  /\ UNCHANGED sessVars
  /\ UNCHANGED timerVars

\* POST /api/assets: INSERT; created_at and updated_at default to CURRENT_TIMESTAMP
InsertAsset(a) ==
  /\ assets[a] = NoRow
  /\ BeginStmt(a, "insert")

\* PUT /api/assets/:id, PATCH /api/assets/:id/geometry:
\* UPDATE ... SET updated_at = NOW() WHERE id = :id AND deleted_at IS NULL
UpdateAsset(a) ==
  /\ assets[a] # NoRow
  /\ assets[a].deleted_at = NULL
  /\ BeginStmt(a, "update")

\* DELETE /api/assets/:id: UPDATE ... SET deleted_at = NOW() WHERE ... deleted_at IS NULL
DeleteAsset(a) ==
  /\ assets[a] # NoRow
  /\ assets[a].deleted_at = NULL
  /\ BeginStmt(a, "delete")

\* the row a statement leaves; the BEFORE UPDATE trigger update_updated_at_column
\* sets updated_at on every UPDATE, the soft delete included
RowAfter(row, st) ==
  IF st.op = "insert"
  THEN [created_at |-> st.ts, updated_at |-> st.ts, deleted_at |-> NULL]
  ELSE IF st.op = "update"
  THEN [row EXCEPT !.updated_at = st.ts]
  ELSE [row EXCEPT !.updated_at = st.ts, !.deleted_at = st.ts]

\* the statement on row a began and now commits with the scheduler idle, and no
\* tick has captured its time since the statement began
MutatedWhileIdle(a) ==
  /\ stmt[a].whileIdle
  /\ SchedulerIdle
  /\ stmt[a].ts > lastCheckTime
  /\ \A t \in Slots : InFlight(t) => tick[t].currentTime < stmt[a].ts

\* the statement commits and the handler's await returns
Commit(a) ==
  /\ stmt[a] # NoStmt
  /\ assets' = [assets EXCEPT ![a] = RowAfter(assets[a], stmt[a])]
  /\ stmt' = [stmt EXCEPT ![a] = NoStmt]
  /\ unseen' = IF SchedulerIdle THEN unseen \ {a} ELSE unseen \cup {a}
  /\ idleMut' = IF MutatedWhileIdle(a) THEN idleMut \cup {a} ELSE idleMut
  /\ UNCHANGED <<now, lastCheckTime, tick, unhandled>>
  /\ UNCHANGED <<kafka, failedOpen>>
  /\ UNCHANGED hookVars
  /\ UNCHANGED <<build, clientVars, notifyVars, wire>>
  /\ UNCHANGED sessVars
  /\ UNCHANGED timerVars

\* ----------------------------------------------------- the three queries
\* WHERE created_at > since AND created_at = updated_at AND deleted_at IS NULL
CreatedRows(since) ==
  {a \in AssetIds : /\ assets[a] # NoRow
                    /\ assets[a].created_at > since
                    /\ assets[a].created_at = assets[a].updated_at
                    /\ assets[a].deleted_at = NULL}

\* WHERE updated_at > since AND updated_at > created_at AND deleted_at IS NULL
UpdatedRows(since) ==
  {a \in AssetIds : /\ assets[a] # NoRow
                    /\ assets[a].updated_at > since
                    /\ assets[a].updated_at > assets[a].created_at
                    /\ assets[a].deleted_at = NULL}

\* WHERE deleted_at > since AND deleted_at IS NOT NULL
DeletedRows(since) ==
  {a \in AssetIds : /\ assets[a] # NoRow
                    /\ assets[a].deleted_at # NULL
                    /\ assets[a].deleted_at > since}

\* ORDER BY <column> DESC
RECURSIVE OrderDesc(_, _)
OrderDesc(rows, col) ==
  IF rows = {} THEN <<>>
  ELSE LET a == CHOOSE x \in rows : \A y \in rows : assets[x][col] >= assets[y][col]
       IN  <<a>> \o OrderDesc(rows \ {a}, col)

\* The properties column is free-form JSON; here every row's JSON has an "id"
\* key of its own, holding a value that is no asset id.
Properties(a) == [id |-> a + NumAssets]

\* the row a query returns for asset a: SELECT id (the deleted query), or
\* SELECT id, ..., geometry, properties (the created and updates queries)
SelectedRow(kind, a) ==
  IF kind = "asset_delete" THEN [id |-> a]
  ELSE [id |-> a, geometry |-> "geometry", properties |-> Properties(a)]

\* {...base, ...over}: the keys of over replace those of base
Spread(base, over) ==
  [k \in (DOMAIN base) \cup (DOMAIN over) |-> IF k \in DOMAIN over THEN over[k] ELSE base[k]]

\* data: {type: 'Feature', id: asset.id, ...asset.properties}, the JSON spread
\* into the feature itself
EventDataSpreadTop(kind, row) ==
  IF kind = "asset_delete" THEN [id |-> row.id]
  ELSE Spread([type |-> "Feature", id |-> row.id], row.properties)

\* data: {type: 'Feature', id: asset.id, geometry: asset.geometry,
\*        properties: {id: asset.id, ..., ...asset.properties}}, or {id: asset.id}
EventData(kind, row) ==
  IF kind = "asset_delete" THEN [id |-> row.id]
  ELSE [type |-> "Feature", id |-> row.id, geometry |-> row.geometry,
        properties |-> Spread([id |-> row.id], row.properties)]

\* rows.forEach(asset => broadcast({type: kind, data: ...})); of: the id of the
\* row the event was built from
RECURSIVE Events(_, _)
Events(kind, ordered) ==
  IF ordered = <<>> THEN <<>>
  ELSE <<[type |-> kind, of |-> Head(ordered),
          data |-> EventData(kind, SelectedRow(kind, Head(ordered)))]>>
       \o Events(kind, Tail(ordered))

\* the ids a tick has broadcast under kind
SentAs(t, kind) == {tick[t].sent[i].data.id : i \in {j \in 1..Len(tick[t].sent) : tick[t].sent[j].type = kind}}
SentIds(t) == {tick[t].sent[i].data.id : i \in 1..Len(tick[t].sent)}
\* the number of broadcasts a tick has made for id a
SentCount(t, a) == Cardinality({i \in 1..Len(tick[t].sent) : tick[t].sent[i].data.id = a})

\* ---------------------------------------------------------- pollForUpdates
\* a query issued with the capture of this instant in place of the watermark
QueryParamCurrentTime == now

\* ${lastCheckTime}: the parameter every query is issued with
QueryParam == lastCheckTime

\* startedAt: the clock when the invocation began, whether or not the code read it;
\* afterStop: the invocation has broadcast rows while no timer was active
IdleTick == [pc |-> "idle", currentTime |-> NULL, startedAt |-> NULL, since |-> NULL,
             sent |-> <<>>, ok |-> TRUE, due |-> {}, dueIdle |-> {}, solo |-> TRUE,
             afterStop |-> FALSE]

\* the record kept of an invocation that has returned; only the latest one is kept
Returned(rec, ok) == [rec EXCEPT !.pc = "done", !.ok = ok, !.currentTime = NULL,
                                !.startedAt = NULL, !.since = NULL, !.solo = TRUE]

\* the latest timestamp of a committed row
LastTs(a) == Max(assets[a].updated_at, assets[a].deleted_at)

FreeSlots == {t \in Slots : ~InFlight(t)}

\* the interval fires: pollForUpdates runs up to its first await.
\* currentTime = new Date(); the first query is issued with ${lastCheckTime}.
\* The legacy build reads no clock here and issues its only query.
TimerFire ==
  /\ activeTimers # {}
  /\ IF build = "production" /\ subscriberCount = 0
     THEN UNCHANGED pollVars
     ELSE /\ now <= MaxTime
          /\ FreeSlots # {}
          /\ LET t == CHOOSE x \in FreeSlots : \A y \in FreeSlots : x <= y
                 alone == \A o \in Slots : ~InFlight(o)
             IN  tick' = [o \in Slots |->
                            IF o = t
                            THEN [pc |-> IF build = "legacy" THEN "updates" ELSE "created",
                                  currentTime |-> IF build = "legacy" THEN NULL ELSE now,
                                  startedAt |-> now,
                                  since |-> QueryParam,
                                  sent |-> <<>>, ok |-> TRUE,
                                  due |-> {a \in AssetIds : assets[a] # NoRow /\ LastTs(a) > lastCheckTime},
                                  dueIdle |-> idleMut, solo |-> alone, afterStop |-> FALSE]
                            ELSE IF InFlight(o) THEN [tick[o] EXCEPT !.solo = FALSE]
                            ELSE tick[o]]
          /\ now' = IF build = "legacy" THEN now ELSE now + 1
          /\ UNCHANGED <<lastCheckTime, assets, stmt, unhandled, unseen, idleMut>>
  /\ UNCHANGED <<kafka, failedOpen>>
  /\ UNCHANGED hookVars
  /\ UNCHANGED <<build, clientVars, notifyVars, wire>>
  /\ UNCHANGED sessVars
  /\ UNCHANGED timerVars

\* the bookkeeping of one query's broadcasts.  Each event goes through
\* broadcast(), which in the pub/sub builds assigns no variable of the module;
\* its fan-out to the sessions is the Broadcast action's.
BroadcastRows(t, kind, ordered) ==
  /\ unseen' = unseen \ SeqToSet(ordered)
  /\ idleMut' = idleMut \ (SeqToSet(ordered) \cap tick[t].dueIdle)
  /\ UNCHANGED wire

\* the events of a query dropped when the timer has been cleared meanwhile
EmitWhileScheduled(sent, events) == IF activeTimers = {} THEN sent ELSE sent \o events

\* the events of a query put in front of those the tick has broadcast already
EmitFirst(sent, events) == events \o sent

\* the broadcasts of a query follow, in the order of its rows, those the tick
\* has made already
Emit(sent, events) == sent \o events

\* a query's result arrives: its rows are broadcast and the next query is issued
\* with ${lastCheckTime}, or after the last query the function returns
QueryStep(t, kind, ordered, nextPc) ==
  /\ BroadcastRows(t, kind, ordered)
  /\ LET rec == [tick[t] EXCEPT !.pc = nextPc,
                               !.since = QueryParam,
                               !.sent = Emit(@, Events(kind, ordered)),
                               !.afterStop = @ \/ (SchedulerIdle /\ ordered # <<>>)]
         told == SeqToSet(ordered) \cap tick[t].dueIdle
     IN  tick' = [o \in Slots |->
                    IF o = t THEN (IF nextPc = "done" THEN Returned(rec, TRUE) ELSE rec)
                    ELSE IF InFlight(o) THEN [tick[o] EXCEPT !.dueIdle = @ \ told]
                    ELSE IF nextPc = "done" THEN IdleTick
                    ELSE tick[o]]
  /\ UNCHANGED <<now, assets, stmt, unhandled>>
  /\ UNCHANGED <<kafka, failedOpen>>
  /\ UNCHANGED hookVars
  /\ UNCHANGED <<build, clientVars, notifyVars>>
  /\ UNCHANGED sessVars
  /\ UNCHANGED timerVars

QueryCreated(t) ==
  /\ tick[t].pc = "created"
  /\ QueryStep(t, "asset_create", OrderDesc(CreatedRows(tick[t].since), "created_at"), "updates")
  /\ UNCHANGED lastCheckTime

QueryUpdates(t) ==
  /\ build # "legacy"
  /\ tick[t].pc = "updates"
  /\ QueryStep(t, "asset_update", OrderDesc(UpdatedRows(tick[t].since), "updated_at"), "deleted")
  /\ UNCHANGED lastCheckTime

\* after the last query's broadcasts: lastCheckTime = currentTime
QueryDeleted(t) ==
  /\ tick[t].pc = "deleted"
  /\ QueryStep(t, "asset_delete", OrderDesc(DeletedRows(tick[t].since), "deleted_at"), "done")
  /\ lastCheckTime' = tick[t].currentTime

\* the legacy build's only query:
\* WHERE updated_at > since AND deleted_at IS NULL
LegacyUpdatedRows(since) ==
  {a \in AssetIds : /\ assets[a] # NoRow
                    /\ assets[a].updated_at > since
                    /\ assets[a].deleted_at = NULL}

\* updates.forEach(asset => broadcast(...)) in the legacy build: n calls of
\* broadcast; the sessions whose write fails are deleted by the first call, so
\* the calls after it find them gone
BroadcastEach(n, failing) ==
  IF n = 0 THEN UNCHANGED <<wire, connections>>
  ELSE IF n = 1 THEN BroadcastTo(failing)
  ELSE /\ connections' = WithoutAll(connections, failing)
       /\ wire' = [registered |-> SeqToSet(connections'), attempted |-> connections',
                   failed |-> {}]

\* the legacy build's query returns: its rows are broadcast as asset_update and
\* then lastCheckTime = new Date()
QueryUpdatesLegacy(t) ==
  /\ build = "legacy"
  /\ tick[t].pc = "updates"
  /\ now <= MaxTime
  /\ LET ordered == OrderDesc(LegacyUpdatedRows(tick[t].since), "updated_at")
         rec == [tick[t] EXCEPT !.sent = Emit(@, Events("asset_update", ordered)),
                                !.afterStop = @ \/ (SchedulerIdle /\ ordered # <<>>)]
         told == SeqToSet(ordered) \cap tick[t].dueIdle
     IN  /\ unseen' = unseen \ SeqToSet(ordered)
         /\ idleMut' = idleMut \ told
         /\ tick' = [o \in Slots |->
                       IF o = t THEN Returned(rec, TRUE)
                       ELSE IF InFlight(o) THEN [tick[o] EXCEPT !.dueIdle = @ \ told]
                       ELSE IdleTick]
         /\ \E failing \in SUBSET Registered : BroadcastEach(Len(ordered), failing)
  /\ lastCheckTime' = now
  /\ now' = now + 1
  /\ UNCHANGED <<assets, stmt, unhandled>>
  /\ UNCHANGED <<kafka, failedOpen>>
  /\ UNCHANGED hookVars
  /\ UNCHANGED <<build, clientVars, notifyVars, phase, errFired, subscribed, subscriberCount,
                 welcome, reply>>
  /\ UNCHANGED timerVars

\* what a rejected query leaves behind if the rejection is not caught and the
\* statements after the try block's queries are skipped
OnQueryErrorEscapes(t) ==
  [watermark |-> lastCheckTime, escaped |-> TRUE]

\* } catch (error) { console.error(...) }: nothing is assigned, nothing is rethrown
OnQueryError(t) ==
  [watermark |-> lastCheckTime, escaped |-> FALSE]

\* one of the tick's queries rejects
QueryFail(t) ==
  /\ InFlight(t)
  /\ tick' = [o \in Slots |->
                IF o = t THEN Returned(tick[t], FALSE)
                ELSE IF InFlight(o) THEN tick[o]
                ELSE IdleTick]
  /\ lastCheckTime' = OnQueryError(t).watermark
  /\ unhandled' = (unhandled \/ OnQueryError(t).escaped)
  /\ UNCHANGED <<now, assets, stmt, unseen, idleMut>>
  /\ UNCHANGED <<kafka, failedOpen>>
  /\ UNCHANGED hookVars
  /\ UNCHANGED <<build, clientVars, notifyVars, wire>>
  /\ UNCHANGED sessVars
  /\ UNCHANGED timerVars

\* ------------------------------------------------ the push subscriptions
Endpoints == 1..NumEndpoints
\* JavaScript's undefined in a number position; NULL is null there, in JavaScript
\* and in SQL.  NULLTEXT is null in a text position.
UNDEFINED == 0 - 2
NULLTEXT == "null"
KeyPairs == {[p256dh |-> "p1", auth |-> "a1"], [p256dh |-> "p2", auth |-> "a2"]}
ExpirationTimes == {UNDEFINED, 0}
UserAgents == {NULLTEXT, "", "Mozilla"}

\* payload.expirationTime ?? null
Nullish(x) == IF x = UNDEFINED \/ x = NULL THEN NULL ELSE x

\* userAgent || null
OrNull(x) == IF x = NULLTEXT \/ x = "" THEN NULLTEXT ELSE x

\* INSERT INTO push_subscriptions (...) VALUES (...) with no conflict clause on
\* a table without the UNIQUE constraint
InsertOnly(rows, new) == rows \cup {new}

\* INSERT ... ON CONFLICT (endpoint) DO UPDATE SET p256dh, auth,
\* expiration_time, user_agent = EXCLUDED.*: the row keeps its id
InsertOnConflictUpdate(rows, new) ==
  IF \E r \in rows : r.endpoint = new.endpoint
  THEN {IF r.endpoint = new.endpoint
        THEN [r EXCEPT !.p256dh = new.p256dh, !.auth = new.auth,
                       !.expiration_time = new.expiration_time,
                       !.user_agent = new.user_agent]
        ELSE r : r \in rows}
  ELSE rows \cup {new}

\* no subscribe call yet
NoCall == [keys |-> [p256dh |-> "", auth |-> ""], expirationTime |-> UNDEFINED,
           userAgent |-> NULLTEXT, again |-> FALSE]

\* savePushSubscription(payload, userAgent)
SavePushSubscription(e, keys, expirationTime, userAgent) ==
  /\ nextSubId <= MaxSubIds
  /\ LET new == [id |-> nextSubId, endpoint |-> e,
                 p256dh |-> keys.p256dh, auth |-> keys.auth,
                 expiration_time |-> Nullish(expirationTime),
                 user_agent |-> OrNull(userAgent)]
         rows == InsertOnConflictUpdate(push_subscriptions, new)
     IN  /\ push_subscriptions' = rows
         /\ nextSubId' = IF \E r \in rows : r.id = nextSubId THEN nextSubId + 1 ELSE nextSubId
  /\ latestSub' = [latestSub EXCEPT ![e] =
                     [keys |-> keys, expirationTime |-> expirationTime,
                      userAgent |-> userAgent,
                      again |-> \E r \in push_subscriptions :
                                  r.endpoint = e /\ r.p256dh # keys.p256dh]]
  /\ lastSubOp' = [op |-> "subscribe", endpoint |-> e]
  /\ gone' = gone \ {e}
  /\ dispatch' = [d \in DOMAIN dispatch |-> [dispatch[d] EXCEPT !.goneAtPublish = @ \ {e}]]
  /\ UNCHANGED <<pushConfigured, initialized, nextUuid, notif>>
  /\ UNCHANGED <<kafka, failedOpen>>
  /\ UNCHANGED hookVars
  /\ UNCHANGED <<build, clientVars, wire>>
  /\ UNCHANGED sessVars
  /\ UNCHANGED timerVars
  /\ UNCHANGED pollVars

\* deletePushSubscription(endpoint): DELETE FROM push_subscriptions WHERE endpoint = ...
DeletePushSubscription(e) ==
  /\ push_subscriptions' = {r \in push_subscriptions : r.endpoint # e}
  /\ lastSubOp' = [op |-> "unsubscribe", endpoint |-> e]
  /\ UNCHANGED <<pushConfigured, initialized, nextSubId, latestSub, nextUuid, notif,
                 dispatch, gone>>
  /\ UNCHANGED <<kafka, failedOpen>>
  /\ UNCHANGED hookVars
  /\ UNCHANGED <<build, clientVars, wire>>
  /\ UNCHANGED sessVars
  /\ UNCHANGED timerVars
  /\ UNCHANGED pollVars

\* ------------------------------------------------ the notification centre
DispatchSlots == 1..MaxDispatch
\* JavaScript's undefined in a text position
UNDEFTEXT == "undefined"
Severities == {UNDEFTEXT, "critical"}
Sources == {UNDEFTEXT, "api"}
\* what webpush.sendNotification answers: delivered, or an error with a statusCode
Statuses == {201, 404, 410, 500}

\* configureWebPush(): pushConfigured is set iff both VAPID keys are present
ConfigureWebPush(publicKey, privateKey) ==
  /\ ~initialized
  /\ initialized' = TRUE
  /\ pushConfigured' = (publicKey /\ privateKey)
  /\ UNCHANGED <<push_subscriptions, nextSubId, latestSub, lastSubOp, nextUuid, notif,
                 dispatch, gone>>
  /\ UNCHANGED <<kafka, failedOpen>>
  /\ UNCHANGED hookVars
  /\ UNCHANGED <<build, clientVars, wire>>
  /\ UNCHANGED sessVars
  /\ UNCHANGED timerVars
  /\ UNCHANGED pollVars

\* input.severity without a default
SeverityAsGiven(x) == x

\* input.severity || 'info'
SeverityOrInfo(x) == IF x = UNDEFTEXT \/ x = NULLTEXT \/ x = "" THEN "info" ELSE x

\* source: NotificationSource = 'system'
SourceOrSystem(x) == IF x = UNDEFTEXT THEN "system" ELSE x

\* the payload publish() constructs
Payload(severity, source) ==
  [id |-> nextUuid, source |-> SourceOrSystem(source),
   severity |-> SeverityOrInfo(severity), createdAt |-> now]

IdleDispatch == [pc |-> "idle", payload |-> NULL, goneAtPublish |-> {}, subs |-> {},
                 attempted |-> {}, late |-> {}, pending |-> {}, goneAnswer |-> {},
                 otherError |-> {}, toDelete |-> {}]

\* a slot is free when its invocation has returned; the record of a returned
\* invocation is kept until the slot is taken again
FreeDispatch == {d \in DispatchSlots : dispatch[d].pc \in {"idle", "done"}}

\* publish(input, source): emit('notification') runs handleNotification
\* synchronously: one broadcast(), then dispatchPush() up to its first await
\* (the SELECT of getPushSubscriptions) when push is configured
PublishCall(severity, source) ==
  /\ now <= MaxTime
  /\ pushConfigured => FreeDispatch # {}
  /\ LET payload == Payload(severity, source)
         message == [type |-> "notification", data |-> payload,
                     timestamp |-> payload.createdAt]
     IN  /\ \E failing \in SUBSET Registered : BroadcastTo(failing)
         /\ notif' = [severity |-> severity, source |-> source, at |-> now,
                      usedIds |-> 1..(nextUuid - 1),
                      payload |-> payload, broadcasts |-> <<message>>]
         /\ IF pushConfigured
            THEN LET d == CHOOSE x \in FreeDispatch : \A y \in FreeDispatch : x <= y
                 IN  dispatch' = [dispatch EXCEPT ![d] =
                                    [IdleDispatch EXCEPT !.pc = "select",
                                                         !.payload = payload.id,
                                                         !.goneAtPublish = gone]]
            ELSE UNCHANGED dispatch
  /\ nextUuid' = nextUuid + 1
  /\ now' = now + 1
  /\ UNCHANGED <<pushConfigured, initialized, push_subscriptions, nextSubId, latestSub,
                 lastSubOp, gone>>
  /\ UNCHANGED failedOpen
  /\ UNCHANGED hookVars
  /\ UNCHANGED <<build, clientVars, phase, errFired, subscribed, subscriberCount, welcome, reply>>
  /\ UNCHANGED timerVars
  /\ UNCHANGED <<lastCheckTime, assets, stmt, tick, unhandled, unseen, idleMut>>

\* publish(input, source) called by the API routes
PublishNotification(severity, source) ==
  /\ PublishCall(severity, source)
  /\ UNCHANGED kafka

EndpointsOf(rows) == {r.endpoint : r \in rows}

\* what the catch of a failed delivery does with the subscription when every
\* error is taken for a gone endpoint
OnSendErrorAlwaysDelete(status) == "delete"

\* catch (error): status === 404 || status === 410 deletes the row, any other
\* error is logged
OnSendError(status) == IF status = 404 \/ status = 410 THEN "delete" ELSE "keep"

\* an invocation whose Promise.all has settled returns
Settle(rec) ==
  IF rec.pending = {} /\ rec.toDelete = {}
  THEN [rec EXCEPT !.pc = "done", !.goneAtPublish = {}]
  ELSE rec

\* the SELECT of getPushSubscriptions() returns.  No rows: return.  Otherwise
\* subscriptions.map(async ...) runs every callback up to its await, which
\* calls webpush.sendNotification once per row
DispatchSelect(d) ==
  /\ dispatch[d].pc = "select"
  /\ LET rows == push_subscriptions
     IN  dispatch' = [dispatch EXCEPT ![d] =
                        IF rows = {} THEN IdleDispatch
                        ELSE [@ EXCEPT !.pc = "sending", !.subs = rows,
                                       !.attempted = EndpointsOf(rows),
                                       !.late = EndpointsOf(rows) \cap dispatch[d].goneAtPublish,
                                       !.pending = rows]]
  /\ UNCHANGED <<pushConfigured, initialized, push_subscriptions, nextSubId, latestSub,
                 lastSubOp, nextUuid, notif, gone>>
  /\ UNCHANGED <<kafka, failedOpen>>
  /\ UNCHANGED hookVars
  /\ UNCHANGED <<build, clientVars, wire>>
  /\ UNCHANGED sessVars
  /\ UNCHANGED timerVars
  /\ UNCHANGED pollVars

\* one delivery settles with the given status; on a gone status the DELETE is
\* issued and awaited
SendResult(d, e, status) ==
  /\ dispatch[d].pc = "sending"
  /\ e \in EndpointsOf(dispatch[d].pending)
  /\ LET r == CHOOSE x \in dispatch[d].pending : x.endpoint = e
         isGone == status \in {404, 410}
         delete == status # 201 /\ OnSendError(status) = "delete"
     IN  /\ dispatch' = [dispatch EXCEPT ![d] =
                           Settle([@ EXCEPT !.pending = @ \ {r},
                                            !.goneAnswer = IF isGone THEN @ \cup {r} ELSE @,
                                            !.otherError = IF status # 201 /\ ~isGone
                                                           THEN @ \cup {r} ELSE @,
                                            !.toDelete = IF delete THEN @ \cup {r} ELSE @])]
         /\ gone' = IF isGone THEN gone \cup {e} ELSE gone
  /\ UNCHANGED <<pushConfigured, initialized, push_subscriptions, nextSubId, latestSub,
                 lastSubOp, nextUuid, notif>>
  /\ UNCHANGED <<kafka, failedOpen>>
  /\ UNCHANGED hookVars
  /\ UNCHANGED <<build, clientVars, wire>>
  /\ UNCHANGED sessVars
  /\ UNCHANGED timerVars
  /\ UNCHANGED pollVars

\* DELETE FROM push_subscriptions WHERE id = ${sub.id} completes
DeleteDone(d, e) ==
  /\ dispatch[d].pc = "sending"
  /\ e \in EndpointsOf(dispatch[d].toDelete)
  /\ LET r == CHOOSE x \in dispatch[d].toDelete : x.endpoint = e
     IN  /\ push_subscriptions' = {x \in push_subscriptions : x.id # r.id}
         /\ dispatch' = [dispatch EXCEPT ![d] = Settle([@ EXCEPT !.toDelete = @ \ {r}])]
  /\ UNCHANGED <<pushConfigured, initialized, nextSubId, latestSub, lastSubOp, nextUuid,
                 notif, gone>>
  /\ UNCHANGED <<kafka, failedOpen>>
  /\ UNCHANGED hookVars
  /\ UNCHANGED <<build, clientVars, wire>>
  /\ UNCHANGED sessVars
  /\ UNCHANGED timerVars
  /\ UNCHANGED pollVars

InitNotify ==
  /\ pushConfigured = FALSE
  /\ initialized = FALSE
  /\ push_subscriptions = {}
  /\ nextSubId = 1
  /\ latestSub = [e \in Endpoints |-> NoCall]
  /\ lastSubOp = [op |-> "none", endpoint |-> NULL]
  /\ nextUuid = 1
  /\ notif = [at |-> NULL]
  /\ dispatch = [d \in DispatchSlots |-> IdleDispatch]
  /\ gone = {}

\* ------------------------------------------------------------ the client
FeatureIds == 1..NumFeatures
\* a feature: its id and its content
Features == [id : FeatureIds, content : {"old", "new"}]
NoData == [id |-> NULL, content |-> "none"]
\* the messages of the socket: a change with its data, a delete without data,
\* and a message of a type the handler has no branch for
WSMessages ==
  [type : {"asset_create", "asset_update"}, data : Features] \cup
  {[type |-> "asset_delete", data |-> [id |-> i, content |-> "none"]] : i \in FeatureIds} \cup
  {[type |-> "asset_delete", data |-> NoData], [type |-> "notification", data |-> NoData]}

IdsOf(fs) == {fs[i].id : i \in 1..Len(fs)}

\* prevData.features.findIndex(f => f.id === id), 0 when there is none
FindIndex(fs, id) ==
  IF id \in IdsOf(fs)
  THEN CHOOSE i \in 1..Len(fs) : fs[i].id = id /\ \A j \in 1..(i - 1) : fs[j].id # id
  ELSE 0

\* prevData.features.filter(f => f.id !== id)
RECURSIVE FilterOut(_, _)
FilterOut(fs, id) ==
  IF fs = <<>> THEN <<>>
  ELSE IF Head(fs).id = id THEN FilterOut(Tail(fs), id)
  ELSE <<Head(fs)>> \o FilterOut(Tail(fs), id)

\* the asset_create branch without the exists check
HandleWebSocketMessageAppend(fs, m) ==
  IF m.type \in {"asset_create", "asset_update"} THEN Append(fs, m.data) ELSE FilterOut(fs, m.data.id)

\* handleWebSocketMessage(message): the features the setData updater returns
HandleWebSocketMessage(fs, m) ==
  IF m.type = "asset_create" /\ m.data # NoData
  THEN IF m.data.id \in IdsOf(fs) THEN fs ELSE Append(fs, m.data)
  ELSE IF m.type = "asset_update" /\ m.data # NoData
  THEN IF FindIndex(fs, m.data.id) >= 1
       THEN [fs EXCEPT ![FindIndex(fs, m.data.id)] = m.data]
       ELSE Append(fs, m.data)
  ELSE IF m.type = "asset_delete" /\ m.data # NoData
  THEN FilterOut(fs, m.data.id)
  ELSE fs

NoMessage == [type |-> "none", data |-> NoData]

\* the socket delivers a message to the hook
Receive(m) ==
  /\ Len(features) <= NumFeatures
  /\ features' = HandleWebSocketMessage(features, m)
  /\ received' = m
  /\ repeated' = (received = m)
  /\ UNCHANGED <<kafka, failedOpen>>
  /\ UNCHANGED hookVars
  /\ UNCHANGED <<build, wire>>
  /\ UNCHANGED sessVars
  /\ UNCHANGED timerVars
  /\ UNCHANGED pollVars
  /\ UNCHANGED notifyVars

InitClient ==
  /\ features = <<>>
  /\ received = NoMessage
  /\ repeated = FALSE

\* ------------------------------------------------------ the external feed
\* What a Kafka message can carry.  json: "absent" (message.value is null),
\* "garbage" (text that is not JSON), "null" (the JSON text null) or "object";
\* source and severity: those fields of the object, UNDEFTEXT when it has none
KafkaMessages ==
  {[json |-> j, source |-> UNDEFTEXT, severity |-> UNDEFTEXT] :
     j \in {"absent", "garbage", "null"}}
  \cup [json : {"object"}, source : Sources, severity : Severities]

\* parsed.source || 'kafka'
SourceOrKafka(x) == IF x = UNDEFTEXT \/ x = NULLTEXT \/ x = "" THEN "kafka" ELSE x

\* the try block of eachMessage: JSON.parse throws on text that is not JSON, and
\* reading parsed.type throws when the text parses to null
TryParse(m) == IF m.json \in {"garbage", "null"} THEN "throw" ELSE "publish"

\* a catch block that throws the error again
OnParseErrorRethrow(m) == "threw"

\* catch (error) { console.error(...) }: the message is dropped
OnParseError(m) == "dropped"

\* how one call of eachMessage ends
EachMessageOutcome(m) ==
  IF m.json = "absent" THEN "ignored"
  ELSE IF TryParse(m) = "throw" THEN OnParseError(m)
  ELSE "published"

NoKafka == [consumer |-> "running", json |-> "none", outcome |-> "none", afterDrop |-> FALSE]

\* eachMessage({message, topic, partition}); an exception that leaves the
\* handler stops the consumer
EachMessage(m) ==
  /\ kafka.consumer = "running"
  /\ LET outcome == EachMessageOutcome(m)
     IN  /\ kafka' = [consumer |-> IF outcome = "threw" THEN "crashed" ELSE "running",
                      json |-> m.json, outcome |-> outcome,
                      afterDrop |-> (kafka.outcome = "dropped")]
         /\ IF outcome = "published"
            THEN PublishCall(SeverityOrInfo(m.severity), SourceOrKafka(m.source))
            ELSE /\ UNCHANGED failedOpen
                 /\ UNCHANGED hookVars
                 /\ UNCHANGED <<build, clientVars, notifyVars, wire>>
                 /\ UNCHANGED sessVars
                 /\ UNCHANGED timerVars
                 /\ UNCHANGED pollVars

InitFeed == kafka = NoKafka

\* ------------------------------------------------- open(ws) with a failing step
\* the steps of open(ws) that can throw
OpenSteps == {"subscribe", "welcome", "startPolling"}

NoFailedOpen == [session |-> NULL, step |-> "none", threw |-> FALSE, before |-> 0, after |-> 0]

\* the registry after ws.subscribe / connections.add and the increment
Registering(s) ==
  IF build = "legacy"
  THEN /\ connections' = SetAdd(connections, s)
       /\ UNCHANGED subscribed
  ELSE /\ subscribed' = subscribed \cup {s}
       /\ UNCHANGED connections

\* } catch (error) { subscriberCount = Math.max(0, subscriberCount - 1); throw error }
\* of the production build, entered with the given count; the other builds
\* have no catch
OpenCatch(count) == IF build = "production" THEN Max(0, count - 1) ELSE count

\* open(ws) in which the given step throws.  The socket itself is open: its
\* close and error callbacks can fire later
OpenFails(s, step) ==
  /\ phase[s] = "connecting"
  /\ phase' = [phase EXCEPT ![s] = "open"]
  /\ CASE step = "subscribe" ->
            \* ws.subscribe(ASSETS_TOPIC) throws, before the increment
            /\ build # "legacy"
            /\ subscriberCount' = OpenCatch(subscriberCount)
            /\ UNCHANGED <<subscribed, connections, welcome>>
            /\ UNCHANGED timerVars
       [] step = "welcome" ->
            \* ws.send throws: the production build catches it at once and goes on
            /\ Registering(s)
            /\ subscriberCount' = IF build = "legacy" THEN subscriberCount
                                  ELSE subscriberCount + 1
            /\ UNCHANGED welcome
            /\ IF build = "production" /\ subscriberCount' = 1
               THEN StartPolling
               ELSE UNCHANGED timerVars
       [] step = "startPolling" ->
            \* startPolling() throws before it has assigned pollTimer
            /\ pollTimer = NULL
            /\ IF build = "legacy" THEN Len(SetAdd(connections, s)) = 1
               ELSE subscriberCount + 1 = 1
            /\ Registering(s)
            /\ subscriberCount' = IF build = "legacy" THEN subscriberCount
                                  ELSE OpenCatch(subscriberCount + 1)
            /\ welcome' = [welcome EXCEPT ![s] = Append(@, WelcomeType)]
            /\ UNCHANGED timerVars
  /\ failedOpen' = [session |-> s, step |-> step,
                    threw |-> ~(build = "production" /\ step = "welcome"),
                    before |-> RegistryCount,
                    after |-> IF build = "legacy" THEN Len(connections')
                              ELSE subscriberCount']
  /\ UNCHANGED kafka
  /\ UNCHANGED hookVars
  /\ UNCHANGED <<build, clientVars, notifyVars, errFired, reply, wire>>
  /\ UNCHANGED pollVars

InitFailedOpen == failedOpen = NoFailedOpen

\* --------------------------------------------------- the client's socket hook
MaxSockets == 3

\* the reconnect option of useWebSocket, at its default
ReconnectOption == TRUE

\* connect(): a new WebSocket, unless shouldConnectRef.current is false
Connect ==
  IF ~shouldConnectRef
  THEN UNCHANGED <<wsRef, sockets>>
  ELSE /\ sockets' = Append(sockets, "CONNECTING")
       /\ wsRef' = Len(sockets) + 1

\* ws.close(): a socket that is connecting or open starts closing
CloseCalled(readyState) ==
  IF readyState \in {"CONNECTING", "OPEN"} THEN "CLOSING" ELSE readyState

FreshTimeout == CHOOSE h \in 1..(Cardinality(hookTimers) + 1) : h \notin hookTimers

\* the component calls the returned reconnect, which is connect
CallReconnect ==
  /\ shouldConnectRef => Len(sockets) < MaxSockets
  /\ Connect
  /\ hookCall' = IF hookCall.disconnected
                 THEN [hookCall EXCEPT !.reconnected = TRUE, !.socketsThen = Len(sockets)]
                 ELSE hookCall
  /\ UNCHANGED <<reconnectTimeoutRef, shouldConnectRef, hookTimers>>
  /\ UNCHANGED <<kafka, failedOpen>>
  /\ UNCHANGED <<build, clientVars, notifyVars, wire>>
  /\ UNCHANGED sessVars
  /\ UNCHANGED timerVars
  /\ UNCHANGED pollVars

\* disconnect(), called by the component or by the effect's cleanup
CallDisconnect ==
  /\ shouldConnectRef' = FALSE
  /\ IF reconnectTimeoutRef # NULL
     THEN /\ hookTimers' = hookTimers \ {reconnectTimeoutRef}
          /\ reconnectTimeoutRef' = NULL
     ELSE UNCHANGED <<hookTimers, reconnectTimeoutRef>>
  /\ IF wsRef # NULL
     THEN /\ sockets' = [sockets EXCEPT ![wsRef] = CloseCalled(@)]
          /\ wsRef' = NULL
     ELSE UNCHANGED <<sockets, wsRef>>
  /\ hookCall' = [disconnected |-> TRUE, reconnected |-> FALSE, socketsThen |-> Len(sockets)]
  /\ UNCHANGED <<kafka, failedOpen>>
  /\ UNCHANGED <<build, clientVars, notifyVars, wire>>
  /\ UNCHANGED sessVars
  /\ UNCHANGED timerVars
  /\ UNCHANGED pollVars

\* the connection of socket i is established: ws.onopen
SocketOpens(i) ==
  /\ i \in 1..Len(sockets)
  /\ sockets[i] = "CONNECTING"
  /\ sockets' = [sockets EXCEPT ![i] = "OPEN"]
  /\ UNCHANGED <<wsRef, reconnectTimeoutRef, shouldConnectRef, hookTimers, hookCall>>
  /\ UNCHANGED <<kafka, failedOpen>>
  /\ UNCHANGED <<build, clientVars, notifyVars, wire>>
  /\ UNCHANGED sessVars
  /\ UNCHANGED timerVars
  /\ UNCHANGED pollVars

\* socket i closes (the attempt failed, the server closed it, or close() was
\* called): ws.onclose schedules connect() after reconnectInterval
SocketCloses(i) ==
  /\ i \in 1..Len(sockets)
  /\ sockets[i] # "CLOSED"
  /\ sockets' = [sockets EXCEPT ![i] = "CLOSED"]
  /\ IF ReconnectOption /\ shouldConnectRef
     THEN /\ hookTimers' = hookTimers \cup {FreshTimeout}
          /\ reconnectTimeoutRef' = FreshTimeout
     ELSE UNCHANGED <<hookTimers, reconnectTimeoutRef>>
  /\ UNCHANGED <<wsRef, shouldConnectRef, hookCall>>
  /\ UNCHANGED <<kafka, failedOpen>>
  /\ UNCHANGED <<build, clientVars, notifyVars, wire>>
  /\ UNCHANGED sessVars
  /\ UNCHANGED timerVars
  /\ UNCHANGED pollVars

\* a pending timeout fires: connect(); reconnectTimeoutRef keeps the handle
TimeoutFires(h) ==
  /\ h \in hookTimers
  /\ shouldConnectRef => Len(sockets) < MaxSockets
  /\ hookTimers' = hookTimers \ {h}
  /\ Connect
  /\ UNCHANGED <<reconnectTimeoutRef, shouldConnectRef, hookCall>>
  /\ UNCHANGED <<kafka, failedOpen>>
  /\ UNCHANGED <<build, clientVars, notifyVars, wire>>
  /\ UNCHANGED sessVars
  /\ UNCHANGED timerVars
  /\ UNCHANGED pollVars

\* the hook after its first render: the effect has called connect()
InitHook ==
  /\ wsRef = 1
  /\ reconnectTimeoutRef = NULL
  /\ shouldConnectRef = TRUE
  /\ sockets = <<"CONNECTING">>
  /\ hookTimers = {}
  /\ hookCall = [disconnected |-> FALSE, reconnected |-> FALSE, socketsThen |-> 0]

\* ------------------------------------------------------------------- Init
InitRegistry ==
  /\ phase = [s \in Sessions |-> "connecting"]
  /\ errFired = [s \in Sessions |-> FALSE]
  /\ welcome = [s \in Sessions |-> <<>>]
  /\ reply = NoReply
  /\ subscribed = {}
  /\ connections = <<>>
  /\ subscriberCount = 0
  /\ pollTimer = NULL
  /\ activeTimers = {}
  /\ lastCall = "none"
  /\ wire = [registered |-> {}, attempted |-> <<>>, failed |-> {}]

InitPoll ==
  /\ now = 1
  /\ lastCheckTime = 0
  /\ assets = [a \in AssetIds |-> NoRow]
  /\ stmt = [a \in AssetIds |-> NoStmt]
  /\ tick = [t \in Slots |-> IdleTick]
  /\ unhandled = FALSE
  /\ unseen = {}
  /\ idleMut = {}

\* ------------------------------------------- the registry and the scheduler
InitSession ==
  /\ build \in Builds
  /\ InitRegistry
  /\ InitPoll
  /\ InitNotify
  /\ InitClient
  /\ InitFeed
  /\ InitFailedOpen
  /\ InitHook

NextSession ==
  \/ \E s \in Sessions : Open(s)
  \/ \E s \in Sessions : Close(s)
  \/ \E s \in Sessions : Error(s)
  \/ \E s \in Sessions : Reconnect(s)
  \/ Signal
  \/ Broadcast

SpecSession == InitSession /\ [][NextSession]_vars

\* ------------------------------------------ the sessions and their messages
NextMessage ==
  \/ NextSession
  \/ \E s \in Sessions : \E m \in Messages : Message(s, m)

SpecMessage == InitSession /\ [][NextMessage]_vars

NextTimer ==
  \/ NextSession
  \/ CallStartPolling
  \/ CallStopPolling

SpecTimer == InitSession /\ [][NextTimer]_vars

\* ------------------------------------- the change detector with its sessions
Init ==
  /\ build \in PubSubBuilds
  /\ InitRegistry
  /\ InitPoll
  /\ InitNotify
  /\ InitClient
  /\ InitFeed
  /\ InitFailedOpen
  /\ InitHook

Next ==
  \/ \E s \in PollSessions : Open(s)
  \/ \E s \in PollSessions : Close(s)
  \/ \E s \in PollSessions : Error(s)
  \/ \E s \in PollSessions : Reconnect(s)
  \/ Signal
  \/ \E a \in AssetIds : InsertAsset(a)
  \/ \E a \in AssetIds : UpdateAsset(a)
  \/ \E a \in AssetIds : DeleteAsset(a)
  \/ \E a \in AssetIds : Commit(a)
  \/ TimerFire
  \/ \E t \in Slots : QueryCreated(t)
  \/ \E t \in Slots : QueryUpdates(t)
  \/ \E t \in Slots : QueryDeleted(t)
  \/ \E t \in Slots : QueryFail(t)

Spec == Init /\ [][Next]_vars

\* the store answers every query it is sent: each awaited query of an invocation
\* eventually resolves or rejects
QueryAnswered(t) == QueryCreated(t) \/ QueryUpdates(t) \/ QueryDeleted(t) \/ QueryFail(t)

SpecAnswered == Spec /\ \A t \in Slots : WF_vars(QueryAnswered(t))

\* ------------------------------- the change detector of the legacy build
InitLegacy ==
  /\ build = "legacy"
  /\ InitRegistry
  /\ InitPoll
  /\ InitNotify
  /\ InitClient
  /\ InitFeed
  /\ InitFailedOpen
  /\ InitHook

NextLegacy ==
  \/ \E s \in PollSessions : Open(s)
  \/ \E s \in PollSessions : Close(s)
  \/ \E s \in PollSessions : Error(s)
  \/ \E s \in PollSessions : Reconnect(s)
  \/ Signal
  \/ \E a \in AssetIds : InsertAsset(a)
  \/ \E a \in AssetIds : UpdateAsset(a)
  \/ \E a \in AssetIds : DeleteAsset(a)
  \/ \E a \in AssetIds : Commit(a)
  \/ TimerFire
  \/ \E t \in Slots : QueryUpdatesLegacy(t)
  \/ \E t \in Slots : QueryFail(t)

SpecLegacy == InitLegacy /\ [][NextLegacy]_vars

\* ------------------------------------------------- the push subscriptions
InitNotification ==
  /\ build \in PubSubBuilds
  /\ InitRegistry
  /\ InitPoll
  /\ InitNotify
  /\ InitClient
  /\ InitFeed
  /\ InitFailedOpen
  /\ InitHook

NextSubscribe ==
  \/ \E e \in Endpoints : \E k \in KeyPairs : \E x \in ExpirationTimes : \E u \in UserAgents :
        SavePushSubscription(e, k, x, u)
  \/ \E e \in Endpoints : DeletePushSubscription(e)

SpecSubscribe == InitNotification /\ [][NextSubscribe]_vars

\* ------------------------------- the notification centre with its sessions
\* publishing, with the sessions the broadcast goes to; every delivery succeeds
NextPublish ==
  \/ \E s \in PollSessions : Open(s)
  \/ \E s \in PollSessions : Close(s)
  \/ \E pub \in BOOLEAN : \E priv \in BOOLEAN : ConfigureWebPush(pub, priv)
  \/ \E e \in Endpoints : SavePushSubscription(e, [p256dh |-> "p1", auth |-> "a1"], UNDEFINED, NULLTEXT)
  \/ \E sev \in Severities : \E src \in Sources : PublishNotification(sev, src)
  \/ \E d \in DispatchSlots : DispatchSelect(d)
  \/ \E d \in DispatchSlots : \E e \in Endpoints : SendResult(d, e, 201)

SpecPublish == InitNotification /\ [][NextPublish]_vars

\* push dispatch: deliveries that fail, endpoints that subscribe again
NextDispatch ==
  \/ \E pub \in BOOLEAN : \E priv \in BOOLEAN : ConfigureWebPush(pub, priv)
  \/ \E e \in Endpoints : SavePushSubscription(e, [p256dh |-> "p1", auth |-> "a1"], UNDEFINED, NULLTEXT)
  \/ PublishNotification(UNDEFTEXT, UNDEFTEXT)
  \/ \E d \in DispatchSlots : DispatchSelect(d)
  \/ \E d \in DispatchSlots : \E e \in Endpoints : \E st \in Statuses : SendResult(d, e, st)
  \/ \E d \in DispatchSlots : \E e \in Endpoints : DeleteDone(d, e)

SpecDispatch == InitNotification /\ [][NextDispatch]_vars

\* --------------------------------------------------------------- the client
NextClient == \E m \in WSMessages : Receive(m)

SpecClient == InitNotification /\ [][NextClient]_vars

\* ------------------------------------------ open(ws) with a failing step
NextOpenFailure ==
  \/ NextSession
  \/ \E s \in Sessions : \E step \in OpenSteps : OpenFails(s, step)

SpecOpenFailure == InitSession /\ [][NextOpenFailure]_vars

\* --------------------------------------- the external feed with its sessions
NextKafka ==
  \/ \E s \in PollSessions : Open(s)
  \/ \E s \in PollSessions : Close(s)
  \/ \E pub \in BOOLEAN : \E priv \in BOOLEAN : ConfigureWebPush(pub, priv)
  \/ SavePushSubscription(1, [p256dh |-> "p1", auth |-> "a1"], UNDEFINED, NULLTEXT)
  \/ \E m \in KafkaMessages : EachMessage(m)
  \/ \E d \in DispatchSlots : DispatchSelect(d)
  \/ \E d \in DispatchSlots : \E e \in Endpoints : SendResult(d, e, 201)

SpecKafka == InitNotification /\ [][NextKafka]_vars

\* ---------------------------- push dispatch with an endpoint that changes keys
NextResubscribe ==
  \/ ConfigureWebPush(TRUE, TRUE)
  \/ \E k \in KeyPairs : SavePushSubscription(1, k, UNDEFINED, NULLTEXT)
  \/ PublishNotification(UNDEFTEXT, UNDEFTEXT)
  \/ \E d \in DispatchSlots : DispatchSelect(d)
  \/ \E d \in DispatchSlots : \E e \in Endpoints : \E st \in {201, 410} : SendResult(d, e, st)
  \/ \E d \in DispatchSlots : \E e \in Endpoints : DeleteDone(d, e)

SpecResubscribe == InitNotification /\ [][NextResubscribe]_vars

\* --------------------------------------------------- the client's socket hook
NextHook ==
  \/ CallReconnect
  \/ CallDisconnect
  \/ \E i \in 1..MaxSockets : SocketOpens(i)
  \/ \E i \in 1..MaxSockets : SocketCloses(i)
  \/ \E h \in 1..MaxSockets : TimeoutFires(h)

\* the browser delivers every pending event: a connection attempt is answered
\* and a timeout fires
SpecHook ==
  /\ InitNotification
  /\ [][NextHook]_vars
  /\ WF_vars(\E i \in 1..MaxSockets : SocketOpens(i) \/ SocketCloses(i))
  /\ WF_vars(\E h \in 1..MaxSockets : TimeoutFires(h))

\* ================================================================= claims

\* the callback that fires now for session s is the second of its close/error pair
SecondUnregistration(s) ==
  \/ /\ errFired[s] /\ phase[s] = "open" /\ phase'[s] = "closed"
  \/ /\ phase[s] = "closed" /\ ~errFired[s] /\ errFired'[s]

\* C4: when both the error callback and the close callback fire for one session,
\* in either order, the second of them leaves the registry count unchanged, so
\* the session is unregistered exactly once.
C4_UnregisterOnce ==
  [][\A s \in Sessions : SecondUnregistration(s) => RegistryCount' = RegistryCount]_vars

\* C5: after every open, close or error callback the poll scheduler is running
\* exactly when the registry count is greater than zero.
C5_RunningIffSubscribers ==
  (activeTimers # {}) <=> (RegistryCount > 0)

\* C6: at most one poll timer is active in every reachable state, whatever the
\* sequence of open/close/error callbacks and startPolling/stopPolling calls.
C6_AtMostOneTimer ==
  /\ Cardinality(activeTimers) <= 1
  /\ activeTimers = (IF pollTimer = NULL THEN {} ELSE {pollTimer})

\* C6 witness: startPolling was called while the timer was running and changed nothing
C6_Witness ==
  /\ lastCall = "start-noop"
  /\ Cardinality(activeTimers) = 1

\* C7: one broadcast call makes exactly one write attempt per registered session,
\* also when the write to some of them fails.
C7_FanOutComplete ==
  /\ Len(wire.attempted) = Cardinality(wire.registered)
  /\ SeqToSet(wire.attempted) = wire.registered

\* C7 witness: a broadcast to two registered sessions in which the first write failed
C7_Witness ==
  /\ build = "legacy"
  /\ Len(wire.attempted) = 2
  /\ wire.attempted[1] \in wire.failed

\* C10: the registry count is never negative.
C10_CountNonNegative ==
  /\ subscriberCount >= 0
  /\ RegistryCount >= 0

\* C10 witness: close and error have both fired for the only session ever opened,
\* so the second of them unregistered at count zero
C10_Witness ==
  /\ build = "websocket"
  /\ \E s \in Sessions :
       /\ phase[s] = "closed" /\ errFired[s]
       /\ \A o \in Sessions \ {s} : phase[o] = "connecting"
  /\ subscriberCount = 0

\* the rows a tick issued now, with no other tick in flight, would report
Detectable == CreatedRows(lastCheckTime) \cup UpdatedRows(lastCheckTime) \cup DeletedRows(lastCheckTime)

\* C1: no mutation is lost: a mutation committed while the scheduler was running
\* and not broadcast since is reported by the next tick at the latest, that is,
\* once no tick is in flight its row still matches one of the three queries.
C1_NoMutationLost ==
  (\A t \in Slots : ~InFlight(t)) => unseen \subseteq Detectable

\* C2: a pollForUpdates call issued after a mutation with a timestamp above the
\* watermark has committed makes exactly one broadcast for that record.
C2_ReportedExactlyOnce ==
  \A t \in Slots :
    (tick[t].pc = "done" /\ tick[t].ok) => \A a \in tick[t].due : SentCount(t, a) = 1

\* C3: within one tick no record id is broadcast under more than one of
\* asset_create, asset_update and asset_delete.
C3_ClassificationExclusive ==
  \A t \in Slots :
    /\ SentAs(t, "asset_create") \cap SentAs(t, "asset_update") = {}
    /\ SentAs(t, "asset_create") \cap SentAs(t, "asset_delete") = {}
    /\ SentAs(t, "asset_update") \cap SentAs(t, "asset_delete") = {}

Fails(t) == InFlight(t) /\ tick'[t].pc = "done" /\ ~tick'[t].ok

C11_PongToSenderOnly ==
  /\ [](reply.from # NULL =>
          IF reply.heartbeat
          THEN reply.sent = <<[to |-> reply.from, type |-> "pong"]>>
          ELSE reply.sent = <<>>)
  /\ [][reply' # reply =>
          /\ wire' = wire
          /\ subscriberCount' = subscriberCount
          /\ connections' = connections
          /\ subscribed' = subscribed
          /\ pollTimer' = pollTimer
          /\ activeTimers' = activeTimers
          /\ lastCheckTime' = lastCheckTime]_vars

\* C11 witness: a ping has been answered while another session was registered
C11_Witness ==
  /\ reply.from # NULL
  /\ reply.heartbeat
  /\ reply.sent # <<>>
  /\ Registered \ {reply.from} # {}

\* C12: the open handler sends exactly one message, of type "connected", to the
\* session that opened and to no other, once in that session's lifetime.
C12_ConnectedOnce ==
  /\ [](\A s \in Sessions :
          IF phase[s] = "connecting" THEN welcome[s] = <<>>
          ELSE welcome[s] = <<"connected">>)
  /\ [][\A s \in Sessions :
          welcome'[s] # welcome[s] =>
            /\ wire' = wire
            /\ \A o \in Sessions \ {s} : welcome'[o] = welcome[o]]_vars

\* ------------------------------------------------- the notification centre
\* C13: every publish call makes exactly one broadcast, of type "notification",
\* carrying the payload it constructed (an id never used before, the severity
\* given or "info", the time of the call), and starts a push dispatch, which
\* attempts every stored subscription, if and only if push is configured.
C13_PublishBroadcastsOnce ==
  /\ [](notif.at # NULL =>
          /\ Len(notif.broadcasts) = 1
          /\ notif.broadcasts[1].type = "notification"
          /\ notif.broadcasts[1].data = notif.payload
          /\ notif.broadcasts[1].timestamp = notif.at
          /\ notif.payload.id \notin notif.usedIds
          /\ notif.payload.severity =
               (IF notif.severity = UNDEFTEXT THEN "info" ELSE notif.severity)
          /\ notif.payload.createdAt = notif.at)
  /\ [][notif' # notif =>
          (pushConfigured <=>
             \E d \in DispatchSlots :
               /\ dispatch[d].pc \in {"idle", "done"}
               /\ dispatch'[d].pc = "select"
               /\ dispatch'[d].payload = notif'.payload.id)]_vars
  /\ [][\A d \in DispatchSlots :
          (dispatch[d].pc = "select" /\ dispatch'[d].pc # "select") =>
            IF push_subscriptions = {} THEN dispatch'[d].pc = "idle"
            ELSE dispatch'[d].attempted = EndpointsOf(push_subscriptions)]_vars

\* C13 witness: a publish without a severity has been broadcast to a session and
\* its dispatch has attempted two stored subscriptions
C13_Witness ==
  /\ notif.at # NULL
  /\ notif.severity = UNDEFTEXT
  /\ wire.attempted # <<>>
  /\ \E d \in DispatchSlots :
       /\ dispatch[d].pc = "sending"
       /\ dispatch[d].payload = notif.payload.id
       /\ Cardinality(dispatch[d].attempted) >= 2

\* C14: in a push dispatch every subscription of the snapshot is attempted
\* whatever the other deliveries answer; a subscription that answered 404 or 410
\* is deleted from the table, and a delivery that fails otherwise leaves the
\* table as it is.
C14_PruneGoneKeepOthers ==
  /\ [](\A d \in DispatchSlots :
          dispatch[d].pc \in {"sending", "done"} =>
            /\ dispatch[d].attempted = EndpointsOf(dispatch[d].subs)
            /\ dispatch[d].toDelete \subseteq dispatch[d].goneAnswer
            /\ \A r \in dispatch[d].goneAnswer \ dispatch[d].toDelete :
                 \A x \in push_subscriptions : x.id # r.id)
  /\ [][\A d \in DispatchSlots : \A r \in dispatch[d].pending :
          (dispatch'[d].pc # "select" /\ r \in dispatch'[d].otherError)
          => /\ push_subscriptions' = push_subscriptions
             /\ r \notin dispatch'[d].toDelete]_vars

\* C14 witness: a dispatch over two subscriptions has returned; one answered
\* gone and its row is deleted, the other failed otherwise and its row is stored
C14_Witness ==
  \E d \in DispatchSlots :
    /\ dispatch[d].pc = "done"
    /\ dispatch[d].goneAnswer # {}
    /\ \E r \in dispatch[d].otherError : r \in push_subscriptions

\* C15: a publish made after an endpoint answered gone, the endpoint not having
\* subscribed again, makes no delivery attempt to that endpoint.
C15_NoAttemptAfterGone ==
  \A d \in DispatchSlots : dispatch[d].late = {}

\* C16: the table holds at most one row per endpoint, and the row holds the
\* keys, the expiration (none when the call gave none) and the user agent (none
\* when the call gave none or an empty one) of the latest subscribe call for the
\* endpoint; unsubscribe removes the rows of its endpoint and no other row.
C16_UpsertByEndpoint ==
  /\ [](\A r1 \in push_subscriptions : \A r2 \in push_subscriptions :
          r1.endpoint = r2.endpoint => r1 = r2)
  /\ [](\A r \in push_subscriptions :
          LET call == latestSub[r.endpoint]
          IN  /\ r.p256dh = call.keys.p256dh
              /\ r.auth = call.keys.auth
              /\ r.expiration_time =
                   (IF call.expirationTime = UNDEFINED THEN NULL ELSE call.expirationTime)
              /\ r.user_agent =
                   (IF call.userAgent = "" THEN NULLTEXT ELSE call.userAgent))
  /\ [][(lastSubOp' # lastSubOp /\ lastSubOp'.op = "unsubscribe") =>
          push_subscriptions' =
            {r \in push_subscriptions : r.endpoint # lastSubOp'.endpoint}]_vars

\* C16 witness: an endpoint subscribed again with other keys, an expiration of 0
\* and a user agent, while another endpoint has its own row
C16_Witness ==
  \E r \in push_subscriptions :
    /\ latestSub[r.endpoint].again
    /\ r.expiration_time = 0
    /\ r.user_agent = "Mozilla"
    /\ \E o \in push_subscriptions : o.endpoint # r.endpoint

\* ------------------------------------------------------------- the events
\* C17: the data.id of every asset_create and asset_update event is the id of
\* the stored record the event was built from, and the data of every
\* asset_delete event is exactly {id} of a deleted record.
C17_EventCarriesRecordId ==
  \A t \in Slots : \A i \in 1..Len(tick[t].sent) :
    LET ev == tick[t].sent[i]
    IN  /\ ev.of \in AssetIds
        /\ assets[ev.of] # NoRow
        /\ ev.data.id = ev.of
        /\ ev.type = "asset_delete" =>
             /\ DOMAIN ev.data = {"id"}
             /\ assets[ev.of].deleted_at # NULL

\* C17 witness: one tick has broadcast a create event and a delete event
C17_Witness ==
  \E t \in Slots : \E i \in 1..Len(tick[t].sent) : \E j \in 1..Len(tick[t].sent) :
    /\ tick[t].sent[i].type = "asset_create"
    /\ tick[t].sent[j].type = "asset_delete"

\* -------------------------------------------------------------- the client
\* C18: applying a change message twice gives the collection that applying it
\* once gives, and no two features of the collection share an id.
C18_ClientIdempotent ==
  /\ \A m \in WSMessages :
       HandleWebSocketMessage(HandleWebSocketMessage(features, m), m)
         = HandleWebSocketMessage(features, m)
  /\ \A i \in 1..Len(features) : \A j \in 1..Len(features) :
       features[i].id = features[j].id => i = j

\* C18 witness: an update for a feature of a collection of two was handled twice
\* in a row
C18_Witness ==
  /\ repeated
  /\ received.type = "asset_update"
  /\ Len(features) >= 2
  /\ \E i \in 1..Len(features) : features[i] = received.data

\* ------------------------------------------------------------- the ticks
\* C19: at most one invocation of pollForUpdates is in flight at any time.
C19_OneTickInFlight ==
  Cardinality({t \in Slots : InFlight(t)}) <= 1

Rank(type) ==
  CASE type = "asset_create" -> 1
    [] type = "asset_update" -> 2
    [] type = "asset_delete" -> 3

\* C20: among the broadcasts of one tick every asset_create comes before every
\* asset_update, and every asset_update before every asset_delete.
C20_CreateUpdateDeleteOrder ==
  \A t \in Slots : \A i \in 1..Len(tick[t].sent) : \A j \in 1..Len(tick[t].sent) :
    i < j => Rank(tick[t].sent[i].type) <= Rank(tick[t].sent[j].type)

\* C20 witness: a tick that has returned broadcast events of two types
C20_Witness ==
  \E t \in Slots :
    /\ tick[t].pc = "done"
    /\ Len(tick[t].sent) >= 2
    /\ tick[t].sent[1].type # tick[t].sent[Len(tick[t].sent)].type

\* ------------------------------------------------------------ the watermark
\* C21: when an invocation of pollForUpdates returns after its queries
\* succeeded, the watermark is the clock value at which the invocation began,
\* not a value read after the queries ran.
C21_WatermarkIsStartTime ==
  [][\A t \in Slots :
       (InFlight(t) /\ tick'[t].pc = "done" /\ tick'[t].ok)
       => lastCheckTime' = tick[t].startedAt]_vars

\* the rows the query an invocation is awaiting returns, as events
AwaitedEvents(t) ==
  CASE tick[t].pc = "created" ->
         Events("asset_create", OrderDesc(CreatedRows(tick[t].since), "created_at"))
    [] tick[t].pc = "updates" ->
         Events("asset_update", OrderDesc(UpdatedRows(tick[t].since), "updated_at"))
    [] tick[t].pc = "deleted" ->
         Events("asset_delete", OrderDesc(DeletedRows(tick[t].since), "deleted_at"))

\* C22: stopping the scheduler leaves every invocation in flight as it is; the
\* invocation goes on to return, and every query of it that is answered with
\* rows has those rows broadcast, also when no timer is active any more.
C22_InFlightTickCompletes ==
  /\ [][(activeTimers # {} /\ activeTimers' = {}) => tick' = tick]_vars
  /\ [][\A t \in Slots :
          (InFlight(t) /\ tick'[t] # tick[t] /\ tick'[t].pc # tick[t].pc /\ tick'[t].ok)
          => tick'[t].sent = tick[t].sent \o AwaitedEvents(t)]_vars
  /\ \A t \in Slots : [](InFlight(t) => <>(tick[t].pc = "done"))

\* C22 witness: an invocation has returned after broadcasting rows while no
\* timer was active, and none has been started since
C22_Witness ==
  /\ activeTimers = {}
  /\ \E t \in Slots : tick[t].pc = "done" /\ tick[t].ok /\ tick[t].afterStop

\* ------------------------------------------------------------ the registry
\* C23: a call of broadcast leaves the registry as it is: the sessions whose
\* write failed are still registered when it returns.
C23_BroadcastKeepsMembership ==
  [][wire' # wire =>
       /\ Registered' = Registered
       /\ RegistryCount' = RegistryCount
       /\ wire'.failed \subseteq Registered']_vars

\* the open, close or error callback of session s runs in this step
CallbackOf(s) ==
  \/ phase[s] = "connecting" /\ phase'[s] = "open"
  \/ phase[s] = "open" /\ phase'[s] = "closed"
  \/ ~errFired[s] /\ errFired'[s]

\* C26: after every open, close or error callback, the poll timer is active if
\* some session has been opened and not closed.
C26_LiveSessionKeepsTimer ==
  [][(\E s \in Sessions : CallbackOf(s)) =>
       ((\E o \in Sessions : phase'[o] = "open") => activeTimers' # {})]_vars

\* ------------------------------------------------------------ the watermark
\* C27: the watermark lastCheckTime never decreases.
C27_WatermarkMonotone ==
  [][lastCheckTime' >= lastCheckTime]_vars

\* ------------------------------------------------------ the external feed
\* C24: every notification published from a Kafka message carries the source
\* tag "kafka", whatever fields the message has.
C24_FeedSourceTag ==
  kafka.outcome = "published" => notif.payload.source = "kafka"

\* C25: a Kafka message whose payload does not parse publishes nothing:
\* no broadcast, no dispatch, no payload id used; no exception leaves the
\* handler, so the consumer goes on with the messages that follow.
C25_ParseFailureDropped ==
  /\ [](kafka.consumer = "running")
  /\ [](kafka.json \in {"garbage", "null"} => kafka.outcome = "dropped")
  /\ [][(kafka' # kafka /\ kafka'.outcome = "dropped") =>
          /\ notif' = notif
          /\ wire' = wire
          /\ dispatch' = dispatch
          /\ nextUuid' = nextUuid]_vars

\* C25 witness: the message after one that did not parse has been published
\* and broadcast to a session
C25_Witness ==
  /\ kafka.afterDrop
  /\ kafka.outcome = "published"
  /\ notif.at # NULL
  /\ wire.attempted # <<>>

\* --------------------------------------------------------- push dispatch
\* the DELETE a dispatch issued for the row r of its snapshot completes now
Pruned(d, r) == r \in dispatch[d].toDelete /\ r \notin dispatch'[d].toDelete

\* C28: the pruning of a dispatch leaves alone a subscription whose keys were
\* stored after the dispatch read the table: when its DELETE for a snapshot
\* row completes, a stored row of that id that differs from the snapshot stays.
C28_PruneSparesResubscribed ==
  [][\A d \in DispatchSlots : \A r \in dispatch[d].toDelete :
       Pruned(d, r) =>
         \A x \in push_subscriptions :
           (x.id = r.id /\ x # r) => x \in push_subscriptions']_vars

\* -------------------------------------------- open(ws) with a failing step
\* C29: in the production build, when open(ws) throws, the registry count is
\* what it was before the call.
C29_FailedOpenKeepsCount ==
  (build = "production" /\ failedOpen.threw) => failedOpen.after = failedOpen.before

\* --------------------------------------------------- the client's socket hook
\* C30: after disconnect() followed by reconnect() a new socket is created and
\* opens; after disconnect() with no reconnect() since, no socket is created.
C30_ReconnectAfterDisconnect ==
  /\ [](hookCall.reconnected =>
          <>(\E i \in 1..Len(sockets) : i > hookCall.socketsThen /\ sockets[i] = "OPEN"))
  /\ []((hookCall.disconnected /\ ~hookCall.reconnected) =>
          Len(sockets) = hookCall.socketsThen)

====
